---- MODULE Spec2Model ----
(***************************************************************************)
(* StockWatchBoard: the cash-secured-put portfolio optimizer               *)
(* (src/portfolio_optimizer.py).                                           *)
(*                                                                         *)
(* Money is held in whole dollars.  A strike is a whole number of dollars  *)
(* per share; an option premium is held in cents per share, so that the    *)
(* code's  option['premium'] * 100  (dollars per contract) is the integer  *)
(* (premium * 100) \div 100.  Fractions of the capital (0.15, 0.60) are    *)
(* held in percent.  Quotients the code keeps as floats (premium           *)
(* percentage, capital efficiency, premium-per-dollar ratio) are held as   *)
(* numerator / denominator pairs in lowest terms and compared exactly.      *)
(***************************************************************************)
EXTENDS Integers, Sequences, FiniteSets, TLC

VARIABLES
    total_capital,      \* self.total_capital
    min_pct,            \* self.min_allocation_per_stock, in percent
    max_pct,            \* self.max_allocation_per_stock, in percent
    symbols,            \* the requested symbols, in the caller's order
    option_combo,       \* _maximize_capital_utilization: one option per symbol
    allocations,        \* _maximize_capital_utilization: the legs built so far
    remaining_capital,  \* _maximize_capital_utilization: capital not yet placed
    i,                  \* index of the phase-1 loop (1-based)
    pc,                 \* position in the code
    result,             \* value returned by _maximize_capital_utilization
    scan,               \* per requested symbol, what analyze_csp_options returns
    options_data,       \* optimize_portfolio: symbol -> expiry -> opportunities
    common_expiries,    \* optimize_portfolio: the sorted common expiry dates
    e_idx,              \* optimize_portfolio: index of the loop over common_expiries
    combos,             \* optimize_allocation_for_expiry: combinations still to test
    best_allocation,    \* optimize_allocation_for_expiry: best result so far
    best_score,         \* optimize_allocation_for_expiry: its combined score
    evaluated,          \* history: the allocation_result of each combination tested
                        \* for the current expiry, in the order of testing
    optimized_portfolios, \* optimize_portfolio: results collected so far
    portfolios,         \* value returned by optimize_portfolio (set when pc = "done")
    today,              \* the date datetime.now().date() returns, in days
    read_today,         \* get_options_data: the date read at line 58
    s_idx,              \* analyze_multiple_stocks: index of the loop over symbols
    valid_expirations,  \* get_options_data: the expirations kept by the window
    iv,                 \* get_options_data: implied volatility estimate, in percent
    x_idx,              \* analyze_csp_options: index of the loop over expirations
    csp_opportunities,  \* analyze_csp_options: the opportunities found so far
    chain_log           \* history: per expiration of the current symbol, the date
                        \* read at line 105 and what the provider answered

allocVars == <<option_combo, allocations, remaining_capital, i, result>>
scanVars == <<today, read_today, s_idx, valid_expirations, iv, x_idx,
              csp_opportunities, chain_log>>
\* what the optimizer only reads
cfgVars == <<total_capital, min_pct, max_pct, symbols, scan, scanVars>>
expiryVars == <<combos, best_allocation, best_score, evaluated>>
portfolioVars == <<options_data, common_expiries, e_idx, optimized_portfolios, portfolios>>

None == [none |-> TRUE]

\* the scanner before its first step
ScanIdle ==
    /\ today = 0
    /\ read_today = 0
    /\ s_idx = 1
    /\ valid_expirations = <<>>
    /\ iv = 0
    /\ x_idx = 1
    /\ csp_opportunities = <<>>
    /\ chain_log = <<>>

----------------------------------------------------------------------------
(* Bounds of the model *)

MaxSymbols == 3

SymbolNames == <<"AAA", "BBB", "CCC", "DDD", "EEE", "FFF">>

Strikes == {20, 50, 100, 250}
Premiums == {0, 100, 300}
TotalCapitals == {20000, 30000}
Fractions == {<<15, 60>>, <<30, 50>>}

----------------------------------------------------------------------------
(* Exact quotients *)

RECURSIVE GCD(_, _)
GCD(a, b) == IF b = 0 THEN a ELSE GCD(b, a % b)

\* the quotient n / d (n >= 0, d > 0) in lowest terms
Rat(n, d) == LET g == GCD(n, d) IN [num |-> n \div g, den |-> d \div g]

Zero == [num |-> 0, den |-> 1]

\* a / b > c / d for non-negative quotients, by their continued fractions
RECURSIVE FracGT(_, _, _, _)
FracGT(a, b, c, d) ==
    LET q1 == a \div b
        q2 == c \div d
        r1 == a % b
        r2 == c % d
    IN  IF q1 # q2 THEN q1 > q2
        ELSE IF r1 = 0 THEN FALSE
        ELSE IF r2 = 0 THEN TRUE
        ELSE FracGT(d, r2, b, r1)

RatGT(x, y) == FracGT(x.num, x.den, y.num, y.den)

\* an opportunity record as analyze_csp_options builds it (the fields the
\* optimizer reads); premium_percentage is (premium / strike) * 100
Opportunity(sym, exp, days, strike, premium) ==
    [symbol |-> sym, expiration |-> exp, days_to_exp |-> days,
     strike |-> strike, premium |-> premium,
     premium_percentage |-> Rat(premium, strike)]

----------------------------------------------------------------------------
(* Pure helpers of _maximize_capital_utilization *)

Max(a, b) == IF a >= b THEN a ELSE b

\* option['strike'] * 100
Collateral(option) == option.strike * 100

\* option['premium'] * 100, the premium of one contract in dollars
ContractPremium(option) == (option.premium * 100) \div 100

\* calculate_contracts_and_allocation: <<max_contracts, actual_allocation, total_premium>>
calculate_contracts_and_allocation(option, allocated_capital) ==
    LET collateral_per_contract == Collateral(option)
        max_contracts == allocated_capital \div collateral_per_contract
    IN  <<max_contracts,
          max_contracts * collateral_per_contract,
          max_contracts * ContractPremium(option)>>

\* variant: the floor alone, without the max(1, ...) around it
min_contracts_floor(option, total, minp) ==
    (total * minp) \div (100 * Collateral(option))

\* variant: the quotient is rounded up instead of down
min_contracts_ceil(option, total, minp) ==
    Max(1, (total * minp + 100 * Collateral(option) - 1) \div (100 * Collateral(option)))

\* max(1, int(min_capital_per_stock / collateral_per_contract))
min_contracts(option, total, minp) ==
    Max(1, (total * minp) \div (100 * Collateral(option)))

\* min_contracts * collateral_per_contract
min_allocation(option, total, minp) ==
    min_contracts(option, total, minp) * Collateral(option)

\* the leg appended by phase 1
SeedLeg(sym, option, total, minp) ==
    LET cca == calculate_contracts_and_allocation(option, min_allocation(option, total, minp))
    IN  [symbol |-> sym,
         option |-> option,
         allocated_capital |-> min_allocation(option, total, minp),
         actual_allocation |-> cca[2],
         contracts |-> cca[1],
         premium |-> cca[3],
         days_to_exp |-> option.days_to_exp]

\* variant: the seed is compared with the whole capital, not with what is left
SeedFails_total(option, remaining, total, minp) ==
    \/ min_allocation(option, total, minp) > total
    \/ calculate_contracts_and_allocation(option, min_allocation(option, total, minp))[1] = 0

\* the two early returns of one phase-1 iteration (lines 172-173, 179-180)
SeedFails(option, remaining, total, minp) ==
    \/ min_allocation(option, total, minp) > remaining
    \/ calculate_contracts_and_allocation(option, min_allocation(option, total, minp))[1] = 0

\* whether the phase-1 loop returns None on the options combo[1..], starting
\* with remaining capital
RECURSIVE Phase1Fails(_, _, _, _)
Phase1Fails(combo, remaining, total, minp) ==
    IF combo = <<>> THEN FALSE
    ELSE IF SeedFails(combo[1], remaining, total, minp) THEN TRUE
    ELSE Phase1Fails(Tail(combo),
                     remaining - SeedLeg("", combo[1], total, minp).actual_allocation,
                     total, minp)

\* variant: only the per-stock cap is tested, not the remaining capital
CanAdd_noBudget(alloc, remaining, total, maxp) ==
    (alloc.actual_allocation + Collateral(alloc.option)) * 100 <= total * maxp

\* the test guarding one more contract, in phase 2 and in the correction pass
CanAdd(alloc, remaining, total, maxp) ==
    /\ Collateral(alloc.option) <= remaining
    /\ (alloc.actual_allocation + Collateral(alloc.option)) * 100 <= total * maxp

\* the scan of phase 2 over allocations[k..]: best is <<best_idx, gain_num, gain_den>>,
\* the running best premium-per-dollar ratio gain_num / gain_den (0 before any hit)
RECURSIVE BestScan(_, _, _, _, _, _)
BestScan(allocs, k, best, remaining, total, maxp) ==
    IF k > Len(allocs) THEN best
    ELSE LET alloc == allocs[k]
             c == Collateral(alloc.option)
             g == ContractPremium(alloc.option)
             better == /\ CanAdd(alloc, remaining, total, maxp)
                       /\ g * best[3] > best[2] * c
         IN  BestScan(allocs, k + 1,
                      IF better THEN <<k, g, c>> ELSE best,
                      remaining, total, maxp)

\* variant: the scan keeps the last of the stocks with the best ratio
RECURSIVE BestScan_lastWins(_, _, _, _, _, _)
BestScan_lastWins(allocs, k, best, remaining, total, maxp) ==
    IF k > Len(allocs) THEN best
    ELSE LET alloc == allocs[k]
             c == Collateral(alloc.option)
             g == ContractPremium(alloc.option)
             better == /\ CanAdd(alloc, remaining, total, maxp)
                       /\ g > 0
                       /\ g * best[3] >= best[2] * c
         IN  BestScan_lastWins(allocs, k + 1,
                               IF better THEN <<k, g, c>> ELSE best,
                               remaining, total, maxp)

BestIdx_lastWins(allocs, remaining, total, maxp) ==
    BestScan_lastWins(allocs, 1, <<0, 0, 1>>, remaining, total, maxp)[1]

\* best_idx after the scan, 0 when no stock was selected (the code's -1)
BestIdx(allocs, remaining, total, maxp) ==
    BestScan(allocs, 1, <<0, 0, 1>>, remaining, total, maxp)[1]

\* variant: the leg's premium is not updated
AddContract_noPremium(alloc) ==
    [alloc EXCEPT !.contracts = @ + 1,
                  !.actual_allocation = @ + Collateral(alloc.option)]

\* variant: the premium is accumulated in the leg's option record
AddContract_intoOption(alloc) ==
    [alloc EXCEPT !.contracts = @ + 1,
                  !.actual_allocation = @ + Collateral(alloc.option),
                  !.premium = @ + ContractPremium(alloc.option),
                  !.option.premium = @ + alloc.option.premium]

\* variant: allocated_capital follows the contracts added
AddContract_bumpAllocated(alloc) ==
    [alloc EXCEPT !.contracts = @ + 1,
                  !.actual_allocation = @ + Collateral(alloc.option),
                  !.allocated_capital = @ + Collateral(alloc.option),
                  !.premium = @ + ContractPremium(alloc.option)]

\* one contract more on a leg
AddContract(alloc) ==
    [alloc EXCEPT !.contracts = @ + 1,
                  !.actual_allocation = @ + Collateral(alloc.option),
                  !.premium = @ + ContractPremium(alloc.option)]

RECURSIVE SumField(_, _)
SumActual(allocs) == SumField(allocs, "actual_allocation")
SumPremium(allocs) == SumField(allocs, "premium")
SumField(allocs, f) ==
    IF allocs = <<>> THEN 0
    ELSE allocs[1][f] + SumField(Tail(allocs), f)

\* min(alloc['option']['strike'] * 100 for alloc in allocations)
MinContractCost(allocs) ==
    CHOOSE c \in {Collateral(allocs[k].option) : k \in 1..Len(allocs)} :
        \A k \in 1..Len(allocs) : c <= Collateral(allocs[k].option)

\* variant: the last stock that accepts a contract, not the first
FirstAcceptor_last(allocs, remaining, total, maxp) ==
    LET ok == {k \in 1..Len(allocs) : CanAdd(allocs[k], remaining, total, maxp)}
    IN  IF ok = {} THEN 0 ELSE CHOOSE k \in ok : \A j \in ok : k >= j

\* first index the correction pass adds a contract to, 0 if none
FirstAcceptor(allocs, remaining, total, maxp) ==
    LET ok == {k \in 1..Len(allocs) : CanAdd(allocs[k], remaining, total, maxp)}
    IN  IF ok = {} THEN 0 ELSE CHOOSE k \in ok : \A j \in ok : k <= j

\* variant: the total sums the legs' allocated_capital instead of actual_allocation
FinalMetrics_seedSum(allocs, total) ==
    LET total_allocated_capital == SumField(allocs, "allocated_capital")
        total_premium == SumPremium(allocs)
    IN  [none |-> FALSE,
         allocations |-> allocs,
         total_allocated_capital |-> total_allocated_capital,
         total_premium |-> total_premium,
         total_premium_percentage |->
             IF total_allocated_capital > 0
             THEN Rat(total_premium * 100, total_allocated_capital)
             ELSE Zero,
         unused_capital |-> total - total_allocated_capital,
         capital_efficiency |-> Rat(total_allocated_capital * 100, total)]

\* the dictionary returned by _maximize_capital_utilization
FinalMetrics(allocs, total) ==
    LET total_allocated_capital == SumActual(allocs)
        total_premium == SumPremium(allocs)
    IN  [none |-> FALSE,
         allocations |-> allocs,
         total_allocated_capital |-> total_allocated_capital,
         total_premium |-> total_premium,
         total_premium_percentage |->
             IF total_allocated_capital > 0
             THEN Rat(total_premium * 100, total_allocated_capital)
             ELSE Zero,
         unused_capital |-> total - total_allocated_capital,
         capital_efficiency |-> Rat(total_allocated_capital * 100, total)]

----------------------------------------------------------------------------
(* _maximize_capital_utilization, step by step *)

\* variant: a symbol whose seed does not fit is skipped instead of failing the
\* combination
SeedStep_skip ==
    /\ pc = "seed"
    /\ i <= Len(symbols)
    /\ LET option == option_combo[i]
           leg == SeedLeg(symbols[i], option, total_capital, min_pct)
       IN  /\ IF SeedFails(option, remaining_capital, total_capital, min_pct)
              THEN UNCHANGED <<allocations, remaining_capital>>
              ELSE /\ allocations' = Append(allocations, leg)
                   /\ remaining_capital' = remaining_capital - leg.actual_allocation
           /\ i' = i + 1
           /\ pc' = IF i + 1 > Len(symbols) THEN "phase2" ELSE "seed"
           /\ UNCHANGED result
    /\ UNCHANGED <<option_combo>>
    /\ UNCHANGED <<cfgVars, expiryVars, portfolioVars>>

\* variant: the seed is not taken off the remaining capital
SeedStep_noCost ==
    /\ pc = "seed"
    /\ i <= Len(symbols)
    /\ LET option == option_combo[i]
           leg == SeedLeg(symbols[i], option, total_capital, min_pct)
       IN  IF SeedFails(option, remaining_capital, total_capital, min_pct)
           THEN /\ result' = None
                /\ pc' = "returned"
                /\ UNCHANGED <<allocations, remaining_capital, i>>
           ELSE /\ allocations' = Append(allocations, leg)
                /\ remaining_capital' = remaining_capital
                /\ i' = i + 1
                /\ pc' = IF i + 1 > Len(symbols) THEN "phase2" ELSE "seed"
                /\ UNCHANGED result
    /\ UNCHANGED <<option_combo>>
    /\ UNCHANGED <<cfgVars, expiryVars, portfolioVars>>

\* one iteration of the phase-1 loop (lines 164-196)
SeedStep ==
    /\ pc = "seed"
    /\ i <= Len(symbols)
    /\ LET option == option_combo[i]
           leg == SeedLeg(symbols[i], option, total_capital, min_pct)
       IN  IF SeedFails(option, remaining_capital, total_capital, min_pct)
           THEN /\ result' = None
                /\ pc' = "returned"
                /\ UNCHANGED <<allocations, remaining_capital, i>>
           ELSE /\ allocations' = Append(allocations, leg)
                /\ remaining_capital' = remaining_capital - leg.actual_allocation
                /\ i' = i + 1
                /\ pc' = IF i + 1 > Len(symbols) THEN "phase2" ELSE "seed"
                /\ UNCHANGED result
    /\ UNCHANGED <<option_combo>>
    /\ UNCHANGED <<cfgVars, expiryVars, portfolioVars>>

\* variant: the loop is left after its first addition
Phase2Step_once ==
    /\ pc = "phase2"
    /\ LET best_idx == BestIdx(allocations, remaining_capital, total_capital, max_pct)
       IN  /\ best_idx >= 1
           /\ allocations' = [allocations EXCEPT ![best_idx] = AddContract(@)]
           /\ remaining_capital' =
                  remaining_capital - Collateral(allocations[best_idx].option)
    /\ pc' = "verify"
    /\ UNCHANGED <<option_combo, i, result>>
    /\ UNCHANGED <<cfgVars, expiryVars, portfolioVars>>

\* variant: the loop selects a stock and adds nothing
Phase2Step_idle ==
    /\ pc = "phase2"
    /\ BestIdx(allocations, remaining_capital, total_capital, max_pct) >= 1
    /\ UNCHANGED <<pc, allocVars>>
    /\ UNCHANGED <<cfgVars, expiryVars, portfolioVars>>

\* one iteration of the phase-2 loop that adds a contract (lines 200-228)
Phase2Step ==
    /\ pc = "phase2"
    /\ LET best_idx == BestIdx(allocations, remaining_capital, total_capital, max_pct)
       IN  /\ best_idx >= 1
           /\ allocations' = [allocations EXCEPT ![best_idx] = AddContract(@)]
           /\ remaining_capital' =
                  remaining_capital - Collateral(allocations[best_idx].option)
    /\ UNCHANGED <<pc, option_combo, i, result>>
    /\ UNCHANGED <<cfgVars, expiryVars, portfolioVars>>

\* variant: the loop may be left while a stock can still be selected
Phase2Break_early ==
    /\ pc = "phase2"
    /\ pc' = "verify"
    /\ UNCHANGED allocVars
    /\ UNCHANGED <<cfgVars, expiryVars, portfolioVars>>

\* the iteration of the phase-2 loop that finds no addition and breaks (lines 229-230)
Phase2Break ==
    /\ pc = "phase2"
    /\ BestIdx(allocations, remaining_capital, total_capital, max_pct) = 0
    /\ pc' = "verify"
    /\ UNCHANGED allocVars
    /\ UNCHANGED <<cfgVars, expiryVars, portfolioVars>>

\* the correction pass (lines 232-245); min() of no legs raises ValueError
CorrectionPass ==
    /\ pc = "verify"
    /\ IF allocations = <<>>
       THEN /\ pc' = "raised"
            /\ UNCHANGED <<allocations, remaining_capital>>
       ELSE LET k == FirstAcceptor(allocations, remaining_capital, total_capital, max_pct)
            IN  /\ pc' = "metrics"
                /\ IF remaining_capital >= MinContractCost(allocations) /\ k >= 1
                   THEN /\ allocations' = [allocations EXCEPT ![k] = AddContract(@)]
                        /\ remaining_capital' =
                               remaining_capital - Collateral(allocations[k].option)
                   ELSE UNCHANGED <<allocations, remaining_capital>>
    /\ UNCHANGED <<option_combo, i, result>>
    /\ UNCHANGED <<cfgVars, expiryVars, portfolioVars>>

\* the final metrics and the return (lines 247-260)
ReturnAllocation ==
    /\ pc = "metrics"
    /\ result' = FinalMetrics(allocations, total_capital)
    /\ pc' = "returned"
    /\ UNCHANGED <<option_combo, allocations, remaining_capital, i>>
    /\ UNCHANGED <<cfgVars, expiryVars, portfolioVars>>

AllocStep ==
    \/ SeedStep
    \/ Phase2Step
    \/ Phase2Break
    \/ CorrectionPass
    \/ ReturnAllocation

----------------------------------------------------------------------------
(* The allocator on its own: every combination of up to MaxSymbols options *)

Options == {Opportunity("", 1, 5, k, p) : k \in Strikes, p \in Premiums}

InitAlloc ==
    /\ total_capital \in TotalCapitals
    /\ \E f \in Fractions : min_pct = f[1] /\ max_pct = f[2]
    /\ \E n \in 1..MaxSymbols :
          /\ symbols = SubSeq(SymbolNames, 1, n)
          /\ option_combo \in [1..n -> Options]
    /\ allocations = <<>>
    /\ remaining_capital = total_capital
    /\ i = 1
    /\ pc = "seed"
    /\ result = None
    /\ scan = <<>>
    /\ options_data = <<>>
    /\ common_expiries = <<>>
    /\ e_idx = 1
    /\ combos = <<>>
    /\ best_allocation = None
    /\ best_score = Zero
    /\ evaluated = <<>>
    /\ ScanIdle
    /\ optimized_portfolios = <<>>
    /\ portfolios = <<>>

vars == <<total_capital, min_pct, max_pct, symbols, option_combo, allocations,
          remaining_capital, i, pc, result, scan, options_data, common_expiries,
          e_idx, combos, best_allocation, best_score, evaluated,
          optimized_portfolios, portfolios, today, read_today, s_idx,
          valid_expirations, iv, x_idx, csp_opportunities, chain_log>>

NextAlloc == AllocStep

SpecAlloc == InitAlloc /\ [][NextAlloc]_vars

\* the allocator as one sequential call: a statement that can run does run
SpecAllocFair == InitAlloc /\ [][NextAlloc]_vars /\ WF_vars(NextAlloc)

----------------------------------------------------------------------------
(* Pure helpers of optimize_portfolio and optimize_allocation_for_expiry *)

Range(seq) == {seq[k] : k \in 1..Len(seq)}

\* the opportunities of one scan that expire at e, in scan order
AtExpiry(options, e) ==
    LET RECURSIVE Pick(_)
        Pick(k) == IF k > Len(options) THEN <<>>
                   ELSE IF options[k].expiration = e
                        THEN <<options[k]>> \o Pick(k + 1)
                        ELSE Pick(k + 1)
    IN  Pick(1)

\* get_common_expiry_options: a symbol whose scan is empty gets no entry
get_common_expiry_options(syms, scans) ==
    [s \in {t \in Range(syms) : scans[t] # <<>>} |->
        [e \in {scans[s][k].expiration : k \in 1..Len(scans[s])} |->
            AtExpiry(scans[s], e)]]

\* sorted(list(S)) for a set of dates
RECURSIVE SortedList(_)
SortedList(S) ==
    IF S = {} THEN <<>>
    ELSE LET m == CHOOSE x \in S : \A y \in S : x <= y
         IN  <<m>> \o SortedList(S \ {m})

\* the keys of options_data in insertion order (the order of the request)
RECURSIVE KeysOf(_, _)
KeysOf(syms, od) ==
    IF syms = <<>> THEN <<>>
    ELSE IF syms[1] \in DOMAIN od /\ ~(syms[1] \in Range(Tail(syms)))
         THEN <<syms[1]>> \o KeysOf(Tail(syms), od)
         ELSE KeysOf(Tail(syms), od)

\* variant: the sets are united instead of intersected
RECURSIVE IntersectAll_union(_, _, _)
IntersectAll_union(common, keys, od) ==
    IF keys = <<>> THEN common
    ELSE IntersectAll_union(common \cup DOMAIN od[keys[1]], Tail(keys), od)

\* the loop of lines 45-47 over symbol_expiries[1:]
RECURSIVE IntersectAll(_, _, _)
IntersectAll(common, keys, od) ==
    IF keys = <<>> THEN common
    ELSE IntersectAll(common \cap DOMAIN od[keys[1]], Tail(keys), od)

\* find_common_expiry_dates; keys lists the symbols of od in dictionary order
find_common_expiry_dates(od, keys) ==
    IF keys = <<>> THEN <<>>
    ELSE SortedList(IntersectAll(DOMAIN od[keys[1]], Tail(keys), od))

\* sorted(seq, key = field f, reverse = True): stable, highest first
RECURSIVE InsertDesc(_, _, _)
InsertDesc(sorted, x, f) ==
    IF sorted = <<>> THEN <<x>>
    ELSE IF RatGT(x[f], sorted[1][f]) THEN <<x>> \o sorted
    ELSE <<sorted[1]>> \o InsertDesc(Tail(sorted), x, f)

RECURSIVE SortDesc(_, _)
SortDesc(seq, f) ==
    IF seq = <<>> THEN <<>>
    ELSE InsertDesc(SortDesc(SubSeq(seq, 1, Len(seq) - 1), f), seq[Len(seq)], f)

\* variant: every opportunity of the expiry is put in the product
TopShortlist_all(options) == SortDesc(options, "premium_percentage")

\* sorted_options[:5]
TopShortlist(options) ==
    LET sorted_options == SortDesc(options, "premium_percentage")
    IN  SubSeq(sorted_options, 1, IF Len(sorted_options) < 5 THEN Len(sorted_options) ELSE 5)

\* itertools.product(*lists): the last list varies fastest
RECURSIVE Product(_)
Product(lists) ==
    IF lists = <<>> THEN << <<>> >>
    ELSE LET rest == Product(Tail(lists))
             RECURSIVE Rows(_)
             Rows(k) == IF k > Len(lists[1]) THEN <<>>
                        ELSE [j \in 1..Len(rest) |-> <<lists[1][k]>> \o rest[j]] \o Rows(k + 1)
         IN  Rows(1)

\* (premium_score * 0.7) + (capital_score * 0.3)
CombinedScore(res) ==
    LET premium_score == res.total_premium_percentage
        capital_score == res.capital_efficiency
    IN  Rat(7 * premium_score.num * capital_score.den
              + 3 * capital_score.num * premium_score.den,
            10 * premium_score.den * capital_score.den)

\* best_allocation with expiry_date and days_to_expiry set (lines 101-102)
Stamped(ba, expiry_date) ==
    [f \in DOMAIN ba \cup {"expiry_date", "days_to_expiry"} |->
        IF f = "expiry_date" THEN expiry_date
        ELSE IF f = "days_to_expiry" THEN ba.allocations[1].days_to_exp
        ELSE ba[f]]

\* a symbol of the request without options at expiry e (lines 66-70)
MissingAt(syms, od, e) ==
    \E k \in 1..Len(syms) : ~(syms[k] \in DOMAIN od /\ e \in DOMAIN od[syms[k]])

----------------------------------------------------------------------------
(* optimize_portfolio, step by step *)

\* line 267: options_data = self.get_common_expiry_options(symbols)
GetOptions ==
    /\ pc = "start"
    /\ options_data' = get_common_expiry_options(symbols, scan)
    /\ pc' = "check"
    /\ UNCHANGED <<common_expiries, e_idx, optimized_portfolios, portfolios>>
    /\ UNCHANGED <<cfgVars, allocVars, expiryVars>>

\* lines 269-276: the two early returns and find_common_expiry_dates
FindCommon ==
    /\ pc = "check"
    /\ LET found == find_common_expiry_dates(options_data, KeysOf(symbols, options_data))
       IN  IF DOMAIN options_data = {} \/ found = <<>>
           THEN /\ portfolios' = <<>>
                /\ pc' = "done"
                /\ common_expiries' = IF DOMAIN options_data = {} THEN common_expiries ELSE found
           ELSE /\ common_expiries' = found
                /\ pc' = "expiry_loop"
                /\ UNCHANGED portfolios
    /\ UNCHANGED <<options_data, e_idx, optimized_portfolios>>
    /\ UNCHANGED <<cfgVars, allocVars, expiryVars>>

\* variant: without the test of lines 67-70 the lookup of a missing symbol
\* or expiry raises KeyError
StartExpiry_unchecked ==
    /\ pc = "expiry_loop"
    /\ e_idx <= Len(common_expiries)
    /\ LET expiry_date == common_expiries[e_idx]
       IN  IF MissingAt(symbols, options_data, expiry_date)
           THEN /\ pc' = "raised"
                /\ UNCHANGED <<e_idx, expiryVars>>
           ELSE /\ combos' = Product([k \in 1..Len(symbols) |->
                                 TopShortlist(options_data[symbols[k]][expiry_date])])
                /\ best_allocation' = None
                /\ best_score' = Zero
                /\ evaluated' = <<>>
                /\ pc' = "combos"
                /\ UNCHANGED e_idx
    /\ UNCHANGED <<options_data, common_expiries, optimized_portfolios, portfolios>>
    /\ UNCHANGED <<cfgVars, allocVars>>

\* lines 281-283 and 64-84: the next expiry; a missing symbol returns None at once
StartExpiry ==
    /\ pc = "expiry_loop"
    /\ e_idx <= Len(common_expiries)
    /\ LET expiry_date == common_expiries[e_idx]
       IN  IF MissingAt(symbols, options_data, expiry_date)
           THEN /\ e_idx' = e_idx + 1
                /\ UNCHANGED <<pc, expiryVars>>
           ELSE /\ combos' = Product([k \in 1..Len(symbols) |->
                                 TopShortlist(options_data[symbols[k]][expiry_date])])
                /\ best_allocation' = None
                /\ best_score' = Zero
                /\ evaluated' = <<>>
                /\ pc' = "combos"
                /\ UNCHANGED e_idx
    /\ UNCHANGED <<options_data, common_expiries, optimized_portfolios, portfolios>>
    /\ UNCHANGED <<cfgVars, allocVars>>

\* lines 86-88 and 158-161: the next combination enters the allocator
NextCombo ==
    /\ pc = "combos"
    /\ combos # <<>>
    /\ option_combo' = combos[1]
    /\ combos' = Tail(combos)
    /\ allocations' = <<>>
    /\ remaining_capital' = total_capital
    /\ i' = 1
    /\ pc' = IF Len(symbols) = 0 THEN "phase2" ELSE "seed"
    /\ UNCHANGED <<result, best_allocation, best_score, evaluated>>
    /\ UNCHANGED <<cfgVars, portfolioVars>>

\* variant: best_score is not updated, so every successful result replaces the best
ComboReturn_keepLast ==
    /\ pc = "returned"
    /\ IF result # None /\ RatGT(CombinedScore(result), best_score)
       THEN /\ best_allocation' = result
            /\ UNCHANGED best_score
       ELSE UNCHANGED <<best_allocation, best_score>>
    /\ evaluated' = Append(evaluated, result)
    /\ pc' = "combos"
    /\ UNCHANGED combos
    /\ UNCHANGED <<cfgVars, allocVars, portfolioVars>>

\* lines 90-98: score the result and keep it if strictly better
ComboReturn ==
    /\ pc = "returned"
    /\ IF result # None /\ RatGT(CombinedScore(result), best_score)
       THEN /\ best_score' = CombinedScore(result)
            /\ best_allocation' = result
       ELSE UNCHANGED <<best_allocation, best_score>>
    /\ evaluated' = Append(evaluated, result)
    /\ pc' = "combos"
    /\ UNCHANGED combos
    /\ UNCHANGED <<cfgVars, allocVars, portfolioVars>>

\* lines 100-104 and 284-285: stamp the best allocation and collect it
FinishExpiry ==
    /\ pc = "combos"
    /\ combos = <<>>
    /\ IF best_allocation # None
       THEN /\ best_allocation' = Stamped(best_allocation, common_expiries[e_idx])
            /\ optimized_portfolios' = Append(optimized_portfolios, best_allocation')
       ELSE UNCHANGED <<best_allocation, optimized_portfolios>>
    /\ e_idx' = e_idx + 1
    /\ pc' = "expiry_loop"
    /\ UNCHANGED <<options_data, common_expiries, portfolios>>
    /\ UNCHANGED <<cfgVars, allocVars, combos, best_score, evaluated>>

\* variant: the collected allocations are returned without the sort
FinishPortfolio_unsorted ==
    /\ pc = "expiry_loop"
    /\ e_idx > Len(common_expiries)
    /\ portfolios' = optimized_portfolios
    /\ pc' = "done"
    /\ UNCHANGED <<options_data, common_expiries, e_idx, optimized_portfolios>>
    /\ UNCHANGED <<cfgVars, allocVars, expiryVars>>

\* lines 287-290: sort by total premium percentage and return
FinishPortfolio ==
    /\ pc = "expiry_loop"
    /\ e_idx > Len(common_expiries)
    /\ portfolios' = SortDesc(optimized_portfolios, "total_premium_percentage")
    /\ pc' = "done"
    /\ UNCHANGED <<options_data, common_expiries, e_idx, optimized_portfolios>>
    /\ UNCHANGED <<cfgVars, allocVars, expiryVars>>

----------------------------------------------------------------------------
(* optimize_portfolio over every request and every scan of up to MaxOpps    *)
(* opportunities per symbol                                                 *)

MaxOpps == 2

Requests == {<<>>, <<"AAA">>, <<"AAA", "BBB">>, <<"BBB", "AAA">>}

ExpiryDates == {10, 17}

\* strike and premium (cents) of the puts a chain may list
Quotes == {<<20, 20>>, <<50, 100>>, <<100, 200>>, <<250, 500>>}

Pool(sym) == {Opportunity(sym, e, e, q[1], q[2]) : e \in ExpiryDates, q \in Quotes}

\* what analyze_csp_options can return: highest premium percentage first, one
\* put per expiry and strike
ScanLists(sym) ==
    {l \in UNION {[1..n -> Pool(sym)] : n \in 0..MaxOpps} :
        /\ \A j, k \in 1..Len(l) :
              j < k => ~RatGT(l[k].premium_percentage, l[j].premium_percentage)
        /\ \A j, k \in 1..Len(l) :
              j # k => <<l[j].expiration, l[j].strike>> # <<l[k].expiration, l[k].strike>>}

InitPortfolio ==
    /\ total_capital = 20000
    /\ min_pct = 15
    /\ max_pct = 60
    /\ symbols \in Requests
    /\ scan \in [Range(symbols) -> UNION {ScanLists(s) : s \in Range(symbols)}]
    /\ \A s \in Range(symbols) : scan[s] \in ScanLists(s)
    /\ option_combo = <<>>
    /\ allocations = <<>>
    /\ remaining_capital = total_capital
    /\ i = 1
    /\ pc = "start"
    /\ result = None
    /\ options_data = <<>>
    /\ common_expiries = <<>>
    /\ e_idx = 1
    /\ combos = <<>>
    /\ best_allocation = None
    /\ best_score = Zero
    /\ evaluated = <<>>
    /\ ScanIdle
    /\ optimized_portfolios = <<>>
    /\ portfolios = <<>>

NextPortfolio ==
    \/ GetOptions
    \/ FindCommon
    \/ StartExpiry
    \/ NextCombo
    \/ AllocStep
    \/ ComboReturn
    \/ FinishExpiry
    \/ FinishPortfolio

SpecPortfolio == InitPortfolio /\ [][NextPortfolio]_vars

----------------------------------------------------------------------------
(* optimize_portfolio with the combinations of an expiry tested in any      *)
(* order, each result merged by the code's own step (lines 90-98); requests *)
(* of one or two symbols with at most two opportunities each                *)

\* seq without its k-th element
RemoveAt(seq, k) == SubSeq(seq, 1, k - 1) \o SubSeq(seq, k + 1, Len(seq))

\* lines 86-88 with any remaining combination taken next
NextComboAnyOrder ==
    /\ pc = "combos"
    /\ \E k \in 1..Len(combos) :
          /\ option_combo' = combos[k]
          /\ combos' = RemoveAt(combos, k)
    /\ allocations' = <<>>
    /\ remaining_capital' = total_capital
    /\ i' = 1
    /\ pc' = IF Len(symbols) = 0 THEN "phase2" ELSE "seed"
    /\ UNCHANGED <<result, best_allocation, best_score, evaluated>>
    /\ UNCHANGED <<cfgVars, portfolioVars>>

AnyOrderScanLists(sym) ==
    {l \in UNION {[1..n -> Pool(sym)] : n \in 0..2} :
        /\ \A j, k \in 1..Len(l) :
              j < k => ~RatGT(l[k].premium_percentage, l[j].premium_percentage)
        /\ \A j, k \in 1..Len(l) :
              j # k => <<l[j].expiration, l[j].strike>> # <<l[k].expiration, l[k].strike>>}

InitAnyOrder ==
    /\ total_capital = 20000
    /\ min_pct = 15
    /\ max_pct = 60
    /\ symbols \in Requests
    /\ scan \in [Range(symbols) -> UNION {AnyOrderScanLists(s) : s \in Range(symbols)}]
    /\ \A s \in Range(symbols) : scan[s] \in AnyOrderScanLists(s)
    /\ option_combo = <<>>
    /\ allocations = <<>>
    /\ remaining_capital = total_capital
    /\ i = 1
    /\ pc = "start"
    /\ result = None
    /\ options_data = <<>>
    /\ common_expiries = <<>>
    /\ e_idx = 1
    /\ combos = <<>>
    /\ best_allocation = None
    /\ best_score = Zero
    /\ evaluated = <<>>
    /\ ScanIdle
    /\ optimized_portfolios = <<>>
    /\ portfolios = <<>>

NextAnyOrder ==
    \/ GetOptions
    \/ FindCommon
    \/ StartExpiry
    \/ NextComboAnyOrder
    \/ AllocStep
    \/ ComboReturn
    \/ FinishExpiry
    \/ FinishPortfolio

SpecAnyOrder == InitAnyOrder /\ [][NextAnyOrder]_vars

----------------------------------------------------------------------------
(* find_common_expiry_dates on its own: every mapping of up to MaxSymbols   *)
(* symbols, each to any set of expiry dates, the empty set included         *)

DateChoices == {10, 17, 24}

\* the sequences of distinct symbols among the first MaxSymbols names
SymbolOrders ==
    {q \in UNION {[1..n -> Range(SubSeq(SymbolNames, 1, MaxSymbols))] : n \in 0..MaxSymbols} :
        \A j, k \in 1..Len(q) : j # k => q[j] # q[k]}

\* find_common_expiry_dates(options_data)
FindCommonExpiryDates ==
    /\ pc = "call_find_common"
    /\ common_expiries' = find_common_expiry_dates(options_data, KeysOf(symbols, options_data))
    /\ pc' = "found"
    /\ UNCHANGED <<options_data, e_idx, optimized_portfolios, portfolios>>
    /\ UNCHANGED <<cfgVars, allocVars, expiryVars>>

InitExpiries ==
    /\ total_capital = 20000
    /\ min_pct = 15
    /\ max_pct = 60
    /\ symbols \in SymbolOrders
    /\ scan = <<>>
    /\ \E dates \in [Range(symbols) -> SUBSET DateChoices] :
          options_data = [s \in Range(symbols) |->
                             [e \in dates[s] |-> <<Opportunity(s, e, e, 50, 100)>>]]
    /\ option_combo = <<>>
    /\ allocations = <<>>
    /\ remaining_capital = total_capital
    /\ i = 1
    /\ pc = "call_find_common"
    /\ result = None
    /\ common_expiries = <<>>
    /\ e_idx = 1
    /\ combos = <<>>
    /\ best_allocation = None
    /\ best_score = Zero
    /\ evaluated = <<>>
    /\ ScanIdle
    /\ optimized_portfolios = <<>>
    /\ portfolios = <<>>

NextExpiries == FindCommonExpiryDates

SpecExpiries == InitExpiries /\ [][NextExpiries]_vars

----------------------------------------------------------------------------
(* The scanner (src/options_analyzer.py).  Bid, ask and premium are held in *)
(* cents per share, volatility in percent, delta in thousandths, dates in   *)
(* days.  NaN stands for the float the provider's table holds where a value *)
(* is missing: every ordered comparison with it is false and every sum with *)
(* it is NaN.                                                               *)

MaxClock == 2
MaxExpirations == 2

NaN == 0 - 1
NaNRat == [num |-> 0, den |-> 0]

\* x <= 0 and x > 0 on floats
LEZero(x) == x # NaN /\ x <= 0
GTZero(x) == x # NaN /\ x > 0

\* (bid + ask) / 2
MidPrice(bid, ask) == IF bid = NaN \/ ask = NaN THEN NaN ELSE (bid + ask) \div 2

\* (premium / strike) * 100
PremiumPercentage(premium, strike) ==
    IF premium = NaN THEN NaNRat ELSE Rat(premium, strike)

\* a < b on the sort keys
KeyLT(a, b) == a.den # 0 /\ b.den # 0 /\ RatGT(b, a)

Abs(x) == IF x < 0 THEN 0 - x ELSE x

\* variant: no test of T before the formula is evaluated
calculate_black_scholes_delta_noGuard(T, sigma, cdf, raises) ==
    IF raises THEN 0
    ELSE IF sigma <= 0 THEN 0
    ELSE 0 - cdf

\* lines 16-31 for a put; T is the time to expiration (its unit does not
\* matter to the tests), cdf is the value of norm.cdf(-d1) for the inputs,
\* raises tells that evaluating the formula raises
calculate_black_scholes_delta(T, sigma, cdf, raises) ==
    IF raises THEN 0
    ELSE IF T <= 0 \/ sigma <= 0 THEN 0
    ELSE 0 - cdf

\* lines 32-45; hist tells whether fetching the price history raises, how
\* many rows it has and the annualized volatility of its returns in percent
get_implied_volatility_estimate(hist) ==
    IF hist.raises \/ hist.rows < 2 THEN 25
    ELSE Max(10, IF hist.volatility < 200 THEN hist.volatility ELSE 200)

\* a row of option_chain.puts; bad tells that reading or comparing its
\* fields raises (lines 109-114)
Put(strike, bid, ask, cdf, delta_raises, bad) ==
    [strike |-> strike, bid |-> bid, ask |-> ask, cdf |-> cdf,
     delta_raises |-> delta_raises, bad |-> bad]

PutPool ==
    {Put(50, 90, 110, 200, FALSE, FALSE),
     Put(50, NaN, 110, 250, FALSE, FALSE),
     Put(50, 90, 110, 200, FALSE, TRUE),
     Put(100, 190, 210, 200, FALSE, FALSE),
     Put(100, 0, 210, 200, FALSE, FALSE),
     Put(100, 290, 310, 300, FALSE, FALSE),
     Put(100, 290, 310, 200, TRUE, FALSE)}

\* the tables option_chain(exp).puts can hold: each strike listed at most
\* once, in any order, the empty table included; for the symbols after the
\* first only the empty table and a table of one put
Chains(sym) ==
    IF sym = "AAA"
    THEN {c \in UNION {[1..n -> PutPool] : n \in 0..2} :
             \A j, k \in 1..Len(c) : j # k => c[j].strike # c[k].strike}
    ELSE {<<>>, <<Put(50, 90, 110, 200, FALSE, FALSE)>>}

ListedDates == {0, 1, 10, 11}

\* what stock.options can list: distinct dates in any order
ExpirationListings ==
    {l \in UNION {[1..n -> ListedDates] : n \in 0..MaxExpirations} :
        \A j, k \in 1..Len(l) : j # k => l[j] # l[k]}

Histories ==
    {[raises |-> TRUE, rows |-> 0, volatility |-> 0],
     [raises |-> FALSE, rows |-> 1, volatility |-> 0],
     [raises |-> FALSE, rows |-> 30, volatility |-> 5],
     [raises |-> FALSE, rows |-> 30, volatility |-> 300]}

ScanRequests == {r \in Requests : r = <<>> \/ r[1] = "AAA"}

\* lines 62-66: the expirations inside the window, in listed order
RECURSIVE ValidExpirations(_, _)
ValidExpirations(expiration_dates, now) ==
    IF expiration_dates = <<>> THEN <<>>
    ELSE LET exp_date == expiration_dates[1]
             rest == ValidExpirations(Tail(expiration_dates), now)
         IN  IF now < exp_date /\ exp_date <= now + 10
             THEN <<exp_date>> \o rest
             ELSE rest

\* lines 142-158
ScanOpportunity(sym, exp, days, put, premium, delta) ==
    [symbol |-> sym, expiration |-> exp, days_to_exp |-> days,
     strike |-> put.strike, bid |-> put.bid, ask |-> put.ask,
     premium |-> premium, delta |-> delta, abs_delta |-> Abs(delta),
     premium_percentage |-> PremiumPercentage(premium, put.strike)]

\* lines 108-158: the rows of one table from row k on; found holds the
\* opportunities appended so far, raised tells that a row raised
RECURSIVE ProcessRows(_, _, _, _, _, _, _)
ProcessRows(puts, k, sym, exp, days, sigma, found) ==
    IF k > Len(puts) THEN [found |-> found, raised |-> FALSE]
    ELSE LET put == puts[k]
             premium == MidPrice(put.bid, put.ask)
             delta == calculate_black_scholes_delta(days, sigma, put.cdf, put.delta_raises)
             abs_delta == Abs(delta)
         IN  IF put.bad THEN [found |-> found, raised |-> TRUE]
             ELSE IF LEZero(put.bid) \/ LEZero(put.ask)
                  THEN ProcessRows(puts, k + 1, sym, exp, days, sigma, found)
             ELSE IF 150 <= abs_delta /\ abs_delta <= 250
                  THEN ProcessRows(puts, k + 1, sym, exp, days, sigma,
                          Append(found, ScanOpportunity(sym, exp, days, put, premium, delta)))
             ELSE ProcessRows(puts, k + 1, sym, exp, days, sigma, found)

Reverse(seq) == [k \in 1..Len(seq) |-> seq[Len(seq) + 1 - k]]

\* list.sort on a list shorter than 64: the length of the run the list
\* starts with; a strictly descending run is reversed in place
RECURSIVE RunEnd(_, _, _)
RunEnd(a, k, descending) ==
    IF k > Len(a) THEN k - 1
    ELSE IF KeyLT(a[k].premium_percentage, a[k - 1].premium_percentage) = descending
         THEN RunEnd(a, k + 1, descending)
         ELSE k - 1

\* the place binary insertion finds for pivot in a[l+1..r] (l, r counted from 0)
RECURSIVE BinaryPlace(_, _, _, _)
BinaryPlace(a, pivot, l, r) ==
    IF l >= r THEN l
    ELSE LET p == l + ((r - l) \div 2)
         IN  IF KeyLT(pivot.premium_percentage, a[p + 1].premium_percentage)
             THEN BinaryPlace(a, pivot, l, p)
             ELSE BinaryPlace(a, pivot, p + 1, r)

\* binary insertion of a[start+1..] into the sorted a[1..start]
RECURSIVE BinarySort(_, _)
BinarySort(a, start) ==
    IF start >= Len(a) THEN a
    ELSE LET pivot == a[start + 1]
             l == BinaryPlace(a, pivot, 0, start)
         IN  BinarySort(SubSeq(a, 1, l) \o <<pivot>> \o SubSeq(a, l + 1, start)
                           \o SubSeq(a, start + 2, Len(a)),
                        start + 1)

\* line 164: csp_opportunities.sort(key = premium_percentage, reverse = True);
\* the list is reversed, sorted ascending and stable with <, and reversed
PySortDesc(seq) ==
    LET a == Reverse(seq)
        descending == Len(a) >= 2 /\ KeyLT(a[2].premium_percentage, a[1].premium_percentage)
        n == IF Len(a) < 2 THEN Len(a) ELSE RunEnd(a, 3, descending)
        run == IF descending THEN Reverse(SubSeq(a, 1, n)) \o SubSeq(a, n + 1, Len(a)) ELSE a
    IN  Reverse(BinarySort(run, n))

ScanFrame == UNCHANGED <<total_capital, min_pct, max_pct, symbols, allocVars,
                         expiryVars, portfolioVars>>

\* the calendar date moves on while the scan runs
DayPasses ==
    /\ pc \in {"get_options_data", "chains"}
    /\ today < MaxClock
    /\ today' = today + 1
    /\ UNCHANGED <<pc, scan, read_today, s_idx, valid_expirations, iv, x_idx,
                   csp_opportunities, chain_log>>
    /\ ScanFrame

\* analyze_multiple_stocks, lines 171-173 and 177: the next symbol, or return
NextSymbol ==
    /\ pc = "scan_loop"
    /\ pc' = IF s_idx > Len(symbols) THEN "scan_done" ELSE "get_options_data"
    /\ UNCHANGED <<scan, scanVars>>
    /\ ScanFrame

\* get_options_data (lines 47-82) as called at lines 86-92: the provider
\* fails, or lists expirations and a price history
GetOptionsData ==
    /\ pc = "get_options_data"
    /\ \/ /\ pc' = "analyzed"
          /\ UNCHANGED <<read_today, valid_expirations, iv, x_idx>>
       \/ \E expiration_dates \in ExpirationListings :
             LET valid == ValidExpirations(expiration_dates, today)
             IN  IF valid = <<>>
                 THEN /\ pc' = "analyzed"
                      /\ read_today' = today
                      /\ UNCHANGED <<valid_expirations, iv, x_idx>>
                 ELSE \E hist \in Histories :
                         /\ read_today' = today
                         /\ valid_expirations' = valid
                         /\ iv' = get_implied_volatility_estimate(hist)
                         /\ x_idx' = 1
                         /\ pc' = "chains"
    /\ UNCHANGED <<scan, today, s_idx, csp_opportunities, chain_log>>
    /\ ScanFrame

\* variant: a failure on one expiration ends the loop
ScanExpiry_abort ==
    /\ pc = "chains"
    /\ x_idx <= Len(valid_expirations)
    /\ LET exp_date == valid_expirations[x_idx]
           days_to_exp == exp_date - today
       IN  \/ /\ chain_log' = Append(chain_log, [expiration |-> exp_date, now |-> today,
                                                 failed |-> TRUE, puts |-> <<>>])
              /\ x_idx' = Len(valid_expirations) + 1
              /\ UNCHANGED csp_opportunities
           \/ \E puts \in Chains(symbols[s_idx]) :
                 LET rows == ProcessRows(puts, 1, symbols[s_idx], exp_date, days_to_exp,
                                         iv, csp_opportunities)
                 IN  /\ chain_log' = Append(chain_log, [expiration |-> exp_date, now |-> today,
                                                        failed |-> FALSE, puts |-> puts])
                     /\ csp_opportunities' = rows.found
                     /\ x_idx' = IF rows.raised THEN Len(valid_expirations) + 1 ELSE x_idx + 1
    /\ UNCHANGED <<pc, scan, today, read_today, s_idx, valid_expirations, iv>>
    /\ ScanFrame

\* analyze_csp_options, lines 95-161: one expiration; fetching the chain
\* raises, or the table is read row by row until the end or a row that raises
ScanExpiry ==
    /\ pc = "chains"
    /\ x_idx <= Len(valid_expirations)
    /\ LET exp_date == valid_expirations[x_idx]
           days_to_exp == exp_date - today
       IN  \/ /\ chain_log' = Append(chain_log, [expiration |-> exp_date, now |-> today,
                                                 failed |-> TRUE, puts |-> <<>>])
              /\ UNCHANGED csp_opportunities
           \/ \E puts \in Chains(symbols[s_idx]) :
                 LET rows == ProcessRows(puts, 1, symbols[s_idx], exp_date, days_to_exp,
                                         iv, csp_opportunities)
                 IN  /\ chain_log' = Append(chain_log, [expiration |-> exp_date, now |-> today,
                                                        failed |-> FALSE, puts |-> puts])
                     /\ csp_opportunities' = rows.found
    /\ x_idx' = x_idx + 1
    /\ UNCHANGED <<pc, scan, today, read_today, s_idx, valid_expirations, iv>>
    /\ ScanFrame

\* lines 163-165: sort and return
SortAndReturn ==
    /\ pc = "chains"
    /\ x_idx > Len(valid_expirations)
    /\ csp_opportunities' = PySortDesc(csp_opportunities)
    /\ pc' = "analyzed"
    /\ UNCHANGED <<scan, today, read_today, s_idx, valid_expirations, iv, x_idx, chain_log>>
    /\ ScanFrame

\* analyze_multiple_stocks, lines 173-175: keep a non-empty result
StoreOpportunities ==
    /\ pc = "analyzed"
    /\ scan' = IF csp_opportunities # <<>>
               THEN scan @@ (symbols[s_idx] :> csp_opportunities)
               ELSE scan
    /\ s_idx' = s_idx + 1
    /\ pc' = "scan_loop"
    \* the locals of the call that returned are gone
    /\ read_today' = 0
    /\ valid_expirations' = <<>>
    /\ iv' = 0
    /\ x_idx' = 1
    /\ csp_opportunities' = <<>>
    /\ chain_log' = <<>>
    /\ UNCHANGED today
    /\ ScanFrame

InitScan ==
    /\ total_capital = 100000
    /\ min_pct = 15
    /\ max_pct = 60
    /\ symbols \in ScanRequests
    /\ scan = <<>>
    /\ option_combo = <<>>
    /\ allocations = <<>>
    /\ remaining_capital = total_capital
    /\ i = 1
    /\ pc = "scan_loop"
    /\ result = None
    /\ options_data = <<>>
    /\ common_expiries = <<>>
    /\ e_idx = 1
    /\ combos = <<>>
    /\ best_allocation = None
    /\ best_score = Zero
    /\ evaluated = <<>>
    /\ optimized_portfolios = <<>>
    /\ portfolios = <<>>
    /\ ScanIdle

NextScan ==
    \/ DayPasses
    \/ NextSymbol
    \/ GetOptionsData
    \/ ScanExpiry
    \/ SortAndReturn
    \/ StoreOpportunities

SpecScan == InitScan /\ [][NextScan]_vars

----------------------------------------------------------------------------
(* optimize_portfolio over scans that list more opportunities at one expiry *)
(* than the shortlist takes                                                 *)

\* the longest scan list of a symbol
MaxListed == 7

\* strike and premium (cents) of the puts of a long chain
DeepQuotes == {<<80, 200>>, <<100, 240>>, <<50, 115>>, <<90, 198>>,
               <<70, 147>>, <<40, 80>>, <<60, 120>>, <<20, 20>>}

DeepPool(sym) ==
    {Opportunity(sym, 10, 10, q[1], q[2]) : q \in DeepQuotes}
       \cup {Opportunity(sym, 17, 17, 40, 100)}

\* the opportunities of S with the highest premium percentage first; equal
\* percentages by strike, upwards or downwards
RECURSIVE Listing(_, _)
Listing(S, asc) ==
    IF S = {} THEN <<>>
    ELSE LET top == CHOOSE o \in S : \A p \in S \ {o} :
                       \/ RatGT(o.premium_percentage, p.premium_percentage)
                       \/ /\ ~RatGT(p.premium_percentage, o.premium_percentage)
                          /\ IF asc THEN o.strike < p.strike ELSE o.strike > p.strike
         IN  <<top>> \o Listing(S \ {top}, asc)

DeepLists(sym) ==
    {Listing(S, asc) :
        S \in {T \in SUBSET DeepPool(sym) : Cardinality(T) \in 4..MaxListed},
        asc \in BOOLEAN}

ShortLists(sym) ==
    {<<>>} \cup {<<Opportunity(sym, 10, 10, q[1], q[2])>> : q \in {<<50, 100>>, <<20, 20>>}}

DeepRequests == {<<"AAA">>, <<"AAA", "BBB">>, <<"BBB", "AAA">>}

InitTop5 ==
    /\ total_capital = 20000
    /\ min_pct = 15
    /\ max_pct = 60
    /\ symbols \in DeepRequests
    /\ \E deep \in DeepLists("AAA"), short \in ShortLists("BBB") :
          scan = [s \in Range(symbols) |-> IF s = "AAA" THEN deep ELSE short]
    /\ option_combo = <<>>
    /\ allocations = <<>>
    /\ remaining_capital = total_capital
    /\ i = 1
    /\ pc = "start"
    /\ result = None
    /\ options_data = <<>>
    /\ common_expiries = <<>>
    /\ e_idx = 1
    /\ combos = <<>>
    /\ best_allocation = None
    /\ best_score = Zero
    /\ evaluated = <<>>
    /\ ScanIdle
    /\ optimized_portfolios = <<>>
    /\ portfolios = <<>>

NextTop5 == NextPortfolio

SpecTop5 == InitTop5 /\ [][NextTop5]_vars

----------------------------------------------------------------------------
(* optimize_portfolio with the scans of get_common_expiry_options made one  *)
(* symbol after the other, each reading the date when it runs               *)

StaggeredRequests == {<<"AAA">>, <<"AAA", "BBB">>, <<"BBB", "AAA">>}

StaggeredExpiries == {5, 10}

StaggeredQuotes == {<<50, 100>>, <<100, 300>>}

\* the opportunities a scan made on date day can list: days_to_exp is the
\* expiry minus the date read by the scan, within the 10-day window
StaggeredPool(sym, day) ==
    {Opportunity(sym, e, e - day, q[1], q[2]) :
        e \in {d \in StaggeredExpiries : day < d /\ d <= day + 10},
        q \in StaggeredQuotes}

StaggeredLists(sym, day) ==
    {l \in UNION {[1..n -> StaggeredPool(sym, day)] : n \in 0..MaxOpps} :
        /\ \A j, k \in 1..Len(l) :
              j < k => ~RatGT(l[k].premium_percentage, l[j].premium_percentage)
        /\ \A j, k \in 1..Len(l) :
              j # k => <<l[j].expiration, l[j].strike>> # <<l[k].expiration, l[k].strike>>}

\* one round of the loop of get_common_expiry_options:
\* options = self.options_analyzer.analyze_csp_options(symbol)
ScanSymbol ==
    /\ pc = "scanning"
    /\ s_idx <= Len(symbols)
    /\ \E options \in StaggeredLists(symbols[s_idx], today) :
          scan' = [s \in DOMAIN scan \cup {symbols[s_idx]} |->
                      IF s = symbols[s_idx] THEN options ELSE scan[s]]
    /\ s_idx' = s_idx + 1
    /\ pc' = IF s_idx + 1 > Len(symbols) THEN "start" ELSE "scanning"
    /\ UNCHANGED <<total_capital, min_pct, max_pct, symbols>>
    /\ UNCHANGED <<today, read_today, valid_expirations, iv, x_idx, csp_opportunities, chain_log>>
    /\ UNCHANGED <<allocVars, expiryVars, portfolioVars>>

\* midnight passes while the symbols are being scanned: datetime.now().date()
\* is one day later for the scans that follow
MidnightPasses ==
    /\ pc = "scanning"
    /\ today < MaxClock
    /\ today' = today + 1
    /\ UNCHANGED <<total_capital, min_pct, max_pct, symbols, scan>>
    /\ UNCHANGED <<read_today, s_idx, valid_expirations, iv, x_idx, csp_opportunities, chain_log>>
    /\ UNCHANGED <<pc, allocVars, expiryVars, portfolioVars>>

InitStaggered ==
    /\ total_capital = 20000
    /\ min_pct = 15
    /\ max_pct = 60
    /\ symbols \in StaggeredRequests
    /\ scan = <<>>
    /\ option_combo = <<>>
    /\ allocations = <<>>
    /\ remaining_capital = total_capital
    /\ i = 1
    /\ pc = "scanning"
    /\ result = None
    /\ options_data = <<>>
    /\ common_expiries = <<>>
    /\ e_idx = 1
    /\ combos = <<>>
    /\ best_allocation = None
    /\ best_score = Zero
    /\ evaluated = <<>>
    /\ ScanIdle
    /\ optimized_portfolios = <<>>
    /\ portfolios = <<>>

NextStaggered ==
    \/ ScanSymbol
    \/ MidnightPasses
    \/ NextPortfolio

SpecStaggered == InitStaggered /\ [][NextStaggered]_vars

----------------------------------------------------------------------------
(* Properties *)

Returned == pc = "returned" /\ result # None

\* C1: whenever _maximize_capital_utilization returns an allocation, its
\* total_allocated_capital is at most total_capital and unused_capital >= 0
C1_WithinCapital ==
    Returned => /\ result.total_allocated_capital <= total_capital
                /\ result.unused_capital >= 0

\* an allocation that places the whole capital after at least one phase-2 addition
C1_Witness ==
    /\ Returned
    /\ result.total_allocated_capital = total_capital
    /\ \E k \in 1..Len(result.allocations) :
          result.allocations[k].actual_allocation > result.allocations[k].allocated_capital

LegsMatchRequest(res) ==
    /\ Len(res.allocations) = Len(symbols)
    /\ \A k \in 1..Len(symbols) : res.allocations[k].symbol = symbols[k]

\* C2: every allocation returned by the allocator, kept by
\* optimize_allocation_for_expiry or returned by optimize_portfolio holds
\* exactly one leg per requested symbol, in the order of the request
C2_OneLegPerSymbol ==
    /\ Returned => LegsMatchRequest(result)
    /\ best_allocation # None => LegsMatchRequest(best_allocation)
    /\ \A k \in 1..Len(optimized_portfolios) : LegsMatchRequest(optimized_portfolios[k])
    /\ \A k \in 1..Len(portfolios) : LegsMatchRequest(portfolios[k])

\* a two-symbol request answered with an allocation, after some combination
\* of the same request was rejected by phase 1
C2_Witness ==
    /\ pc = "done"
    /\ Len(symbols) = 2
    /\ Len(portfolios) >= 1
    /\ \E s \in Range(symbols) : \E k \in 1..Len(scan[s]) :
          Collateral(scan[s][k]) > total_capital
             /\ scan[s][k].expiration = portfolios[1].expiry_date

\* C3 (as claimed): in every returned allocation each symbol's capital is at
\* most total_capital x max_allocation_per_stock, the phase-1 seed included
C3_MaxPerStock ==
    Returned => \A k \in 1..Len(result.allocations) :
                   result.allocations[k].actual_allocation * 100 <= total_capital * max_pct

\* C4 (as claimed): in every returned allocation each symbol's capital is at
\* least total_capital x min_allocation_per_stock
C4_MinPerStock ==
    Returned => \A k \in 1..Len(result.allocations) :
                   result.allocations[k].actual_allocation * 100 >= total_capital * min_pct

LegExact(alloc) ==
    /\ alloc.contracts \in Nat
    /\ alloc.contracts >= 1
    /\ alloc.actual_allocation = alloc.contracts * alloc.option.strike * 100
    /\ alloc.premium * 100 = alloc.contracts * alloc.option.premium * 100

\* C5: in every leg, after phase 1, after every phase-2 step, after the
\* correction pass and in the returned allocation, contracts is an integer
\* >= 1, actual_allocation = contracts x strike x 100 and premium =
\* contracts x option premium x 100 (premium in cents on both sides)
C5_LegsExact ==
    /\ \A k \in 1..Len(allocations) : LegExact(allocations[k])
    /\ Returned => \A k \in 1..Len(result.allocations) : LegExact(result.allocations[k])

\* a returned leg that got contracts in phase 2 and carries a premium
C5_Witness ==
    /\ Returned
    /\ \E k \in 1..Len(result.allocations) :
          /\ result.allocations[k].contracts >= 3
          /\ result.allocations[k].premium > 0
          /\ result.allocations[k].actual_allocation > result.allocations[k].allocated_capital

\* the sum of field f over the legs, by index
RECURSIVE LegSum(_, _, _)
LegSum(legs, f, n) == IF n = 0 THEN 0 ELSE LegSum(legs, f, n - 1) + legs[n][f]

\* C6: in every returned allocation total_allocated_capital and total_premium
\* are the sums over the legs, unused_capital = total_capital -
\* total_allocated_capital, and capital_efficiency = total_allocated_capital /
\* total_capital x 100, which lies in (0, 100]
C6_TotalsConsistent ==
    Returned =>
        LET legs == result.allocations
            ce == result.capital_efficiency
        IN  /\ result.total_allocated_capital = LegSum(legs, "actual_allocation", Len(legs))
            /\ result.total_premium = LegSum(legs, "premium", Len(legs))
            /\ result.unused_capital = total_capital - result.total_allocated_capital
            /\ ce.num * total_capital = result.total_allocated_capital * 100 * ce.den
            /\ ce.num > 0
            /\ ce.num <= 100 * ce.den

\* a returned allocation of several legs, one of them grown after phase 1,
\* that leaves capital unused
C6_Witness ==
    /\ Returned
    /\ Len(result.allocations) >= 2
    /\ result.unused_capital > 0
    /\ \E k \in 1..Len(result.allocations) :
          result.allocations[k].actual_allocation > result.allocations[k].allocated_capital

\* the sum of the seed amounts of a combination, over its set of indices
RECURSIVE SeedTotalOver(_, _)
SeedTotalOver(combo, idx) ==
    IF idx = {} THEN 0
    ELSE LET k == CHOOSE j \in idx : TRUE
         IN  Max(1, (total_capital * min_pct) \div (100 * combo[k].strike * 100))
                 * combo[k].strike * 100
             + SeedTotalOver(combo, idx \ {k})

Reorderings(n) == {f \in [1..n -> 1..n] : \A j, k \in 1..n : j # k => f[j] # f[k]}

\* C7: the allocator returns no allocation exactly when the seed amounts
\* max(1, floor(total_capital x min / collateral)) x collateral of all symbols
\* sum to more than total_capital; phase 1 gives the same outcome on every
\* reordering of the combination; a symbol whose single contract costs more
\* than total_capital makes the combination fail
C7_FailsIffSeedsExceed ==
    pc = "returned" =>
        LET n == Len(option_combo)
            failed == (result = None)
        IN  /\ failed <=> SeedTotalOver(option_combo, 1..n) > total_capital
            /\ \A f \in Reorderings(n) :
                  Phase1Fails([k \in 1..n |-> option_combo[f[k]]],
                              total_capital, total_capital, min_pct) = failed
            /\ (\E k \in 1..n : Collateral(option_combo[k]) > total_capital) => failed

\* a combination rejected at a later symbol although every single contract
\* is affordable on its own
C7_Witness ==
    /\ pc = "returned"
    /\ result = None
    /\ i >= 2
    /\ \A k \in 1..Len(option_combo) : Collateral(option_combo[k]) <= total_capital

\* Scenario B of the specification
IsScenarioB ==
    /\ total_capital = 20000
    /\ min_pct = 15
    /\ max_pct = 60
    /\ symbols = <<"AAA", "BBB">>
    /\ option_combo[1].strike = 50
    /\ option_combo[1].premium = 100
    /\ option_combo[2].strike = 100
    /\ option_combo[2].premium = 300

\* C8: on AAA (strike 50, premium 1.00) and BBB (strike 100, premium 3.00)
\* with capital 20,000 and fractions 0.15 / 0.60 the allocator seeds one
\* contract each, adds exactly one AAA contract and no BBB contract, and
\* returns AAA 2 / 10,000 / 200, BBB 1 / 10,000 / 300, allocated 20,000,
\* premium 500, premium percentage 2.5, unused 0
C8_ScenarioB ==
    IsScenarioB =>
        /\ pc = "phase2" =>
              /\ allocations[1].allocated_capital = 5000
              /\ allocations[2].allocated_capital = 10000
              /\ allocations[1].contracts \in {1, 2}
              /\ allocations[1].contracts = 1 => remaining_capital = 5000
              /\ allocations[2].contracts = 1
        /\ pc = "returned" =>
              /\ result # None
              /\ Len(result.allocations) = 2
              /\ result.allocations[1].symbol = "AAA"
              /\ result.allocations[1].contracts = 2
              /\ result.allocations[1].actual_allocation = 10000
              /\ result.allocations[1].premium = 200
              /\ result.allocations[1].allocated_capital = 5000
              /\ result.allocations[2].symbol = "BBB"
              /\ result.allocations[2].contracts = 1
              /\ result.allocations[2].actual_allocation = 10000
              /\ result.allocations[2].premium = 300
              /\ result.allocations[2].allocated_capital = 10000
              /\ result.total_allocated_capital = 20000
              /\ result.total_premium = 500
              /\ result.total_premium_percentage.num * 10
                    = 25 * result.total_premium_percentage.den
              /\ result.unused_capital = 0

\* the allocator has returned on Scenario B
C8_Witness == IsScenarioB /\ pc = "returned"

\* C9: find_common_expiry_dates returns, as an ascending list without
\* duplicates, exactly the expiry keys present for every symbol of the
\* mapping; the list is empty when the mapping is empty or when a symbol
\* maps to no expiries
C9_CommonExpiries ==
    pc = "found" =>
        /\ \A j, k \in 1..Len(common_expiries) :
              j < k => common_expiries[j] < common_expiries[k]
        /\ DOMAIN options_data = {} => common_expiries = <<>>
        /\ DOMAIN options_data # {} =>
              Range(common_expiries) =
                  {e \in DateChoices : \A s \in DOMAIN options_data : e \in DOMAIN options_data[s]}
        /\ (\E s \in DOMAIN options_data : DOMAIN options_data[s] = {}) =>
              common_expiries = <<>>

\* two common dates found among three symbols, one of which has a date the
\* others lack
C9_Witness ==
    /\ pc = "found"
    /\ Len(common_expiries) = 2
    /\ Cardinality(DOMAIN options_data) >= 3
    /\ \E s \in DOMAIN options_data : Cardinality(DOMAIN options_data[s]) = 3

HasAt(s, e) == \E k \in 1..Len(scan[s]) : scan[s][k].expiration = e

\* C10: every allocation optimize_portfolio returns is for an expiry at which
\* every requested symbol has an opportunity; when a requested symbol has no
\* opportunities, or no expiry is shared by all requested symbols, it returns
\* the empty list; it raises nothing
C10_StrictCommonExpiry ==
    /\ pc # "raised"
    /\ \A k \in 1..Len(portfolios) :
          \A s \in Range(symbols) : HasAt(s, portfolios[k].expiry_date)
    /\ pc = "done" =>
          ((\/ \E s \in Range(symbols) : scan[s] = <<>>
            \/ ~\E e \in ExpiryDates : \A s \in Range(symbols) : HasAt(s, e))
              => portfolios = <<>>)

\* a request of two symbols, one without any opportunity and one with
\* opportunities, has been answered
C10_Witness ==
    /\ pc = "done"
    /\ \E s, t \in Range(symbols) : scan[s] = <<>> /\ scan[t] # <<>>
    /\ e_idx > 1


\* max(1, floor(total_capital x min fraction / collateral)) for one option
SeedCount(option) ==
    LET collateral == option.strike * 100
        floor == (total_capital * min_pct) \div (100 * collateral)
    IN  IF floor >= 1 THEN floor ELSE 1

\* C20: when phase 1 ends each symbol holds exactly max(1, floor(total_capital
\* x min fraction / collateral)) contracts; afterwards, and in the returned
\* allocation, every leg holds at least that many; a step of phase 2 or of
\* the correction pass adds one contract to one leg or changes no count
C20_SeedThenGrow ==
    [][/\ (pc = "seed" /\ pc' = "phase2") =>
              \A k \in 1..Len(allocations') :
                 allocations'[k].contracts = SeedCount(option_combo[k])
       /\ pc' \in {"phase2", "verify", "metrics"} =>
              /\ Len(allocations') = Len(option_combo)
              /\ \A k \in 1..Len(allocations') :
                    allocations'[k].contracts >= SeedCount(option_combo[k])
       /\ (pc' = "returned" /\ result' # None) =>
              \A k \in 1..Len(result'.allocations) :
                 result'.allocations[k].contracts >= SeedCount(option_combo[k])
       /\ pc \in {"phase2", "verify"} =>
              /\ Len(allocations') = Len(allocations)
              /\ \A k \in 1..Len(allocations) :
                    allocations'[k].contracts - allocations[k].contracts \in {0, 1}
              /\ \A j, k \in 1..Len(allocations) :
                    (/\ allocations'[j].contracts # allocations[j].contracts
                     /\ allocations'[k].contracts # allocations[k].contracts) => j = k
      ]_vars

\* a returned allocation with a leg seeded with several contracts and left
\* at its seed, and another leg grown beyond its seed
C20_Witness ==
    /\ Returned
    /\ \E j, k \in 1..Len(result.allocations) :
          /\ SeedCount(option_combo[j]) >= 2
          /\ result.allocations[j].contracts = SeedCount(option_combo[j])
          /\ result.allocations[k].contracts > SeedCount(option_combo[k])


\* every combination of the current expiry has been tested
ExpiryEvaluated == pc = "combos" /\ combos = <<>>

\* the combinations of the shortlists at expiry e, in the order of itertools.product
CombosAt(e) ==
    Product([k \in 1..Len(symbols) |-> TopShortlist(options_data[symbols[k]][e])])

\* 0.7 x total_premium_percentage + 0.3 x capital_efficiency
ScoreOf(res) ==
    LET pp == res.total_premium_percentage
        ce == res.capital_efficiency
    IN  Rat(7 * pp.num * ce.den + 3 * ce.num * pp.den, 10 * pp.den * ce.den)

\* C11: once every combination of the shortlists of an expiry is tested, the
\* allocation kept is one of the results and its combined score 0.7 x
\* total_premium_percentage + 0.3 x capital_efficiency is >= the score of
\* every combination that allocated; none is kept only if all of them failed
C11_BestScoreKept ==
    ExpiryEvaluated =>
        /\ Len(evaluated) = Len(CombosAt(common_expiries[e_idx]))
        /\ (best_allocation = None) <=> (\A k \in 1..Len(evaluated) : evaluated[k] = None)
        /\ best_allocation # None =>
              /\ \E k \in 1..Len(evaluated) : evaluated[k] = best_allocation
              /\ \A k \in 1..Len(evaluated) :
                    evaluated[k] # None =>
                       ~RatGT(ScoreOf(evaluated[k]), ScoreOf(best_allocation))

\* the allocation kept was tested after a combination that allocated with a
\* lower score although its premium percentage is higher
C11_Witness ==
    /\ ExpiryEvaluated
    /\ best_allocation # None
    /\ \E k, m \in 1..Len(evaluated) :
          /\ k < m
          /\ evaluated[k] # None
          /\ evaluated[m] = best_allocation
          /\ RatGT(evaluated[k].total_premium_percentage,
                   evaluated[m].total_premium_percentage)
          /\ RatGT(ScoreOf(evaluated[m]), ScoreOf(evaluated[k]))

\* some combination of expiry e passes phase 1, i.e. allocates
AllocatesAt(e) ==
    /\ ~MissingAt(symbols, options_data, e)
    /\ \E k \in 1..Len(CombosAt(e)) :
          ~Phase1Fails(CombosAt(e)[k], total_capital, total_capital, min_pct)

\* C12: the list optimize_portfolio returns holds no expiry twice, only common
\* expiries, exactly those with a combination that allocates, and is ordered
\* by total_premium_percentage, highest first
C12_OnePerExpirySorted ==
    pc = "done" =>
        /\ \A j, k \in 1..Len(portfolios) :
              j < k =>
                 /\ portfolios[j].expiry_date # portfolios[k].expiry_date
                 /\ ~RatGT(portfolios[k].total_premium_percentage,
                           portfolios[j].total_premium_percentage)
        /\ \A k \in 1..Len(portfolios) : portfolios[k].expiry_date \in Range(common_expiries)
        /\ \A e \in Range(common_expiries) :
              (\E k \in 1..Len(portfolios) : portfolios[k].expiry_date = e) <=> AllocatesAt(e)

\* two allocations returned with the later expiry first, and three
\* allocations never; or one common expiry left out because nothing allocates
C12_Witness ==
    /\ pc = "done"
    /\ Len(portfolios) = 2
    /\ portfolios[1].expiry_date > portfolios[2].expiry_date
    /\ RatGT(portfolios[1].total_premium_percentage, portfolios[2].total_premium_percentage)

\* the result among evaluated for a combination, None if it did not allocate
ResultFor(combo) ==
    LET hits == {k \in 1..Len(evaluated) :
                    /\ evaluated[k] # None
                    /\ [j \in 1..Len(combo) |-> evaluated[k].allocations[j].option] = combo}
    IN  IF hits = {} THEN None ELSE evaluated[CHOOSE k \in hits : TRUE]

\* the allocation kept when the combinations are tested in the order of cs
RECURSIVE KeptInOrder(_, _)
KeptInOrder(cs, best) ==
    IF cs = <<>> THEN best
    ELSE LET r == ResultFor(cs[1])
         IN  KeptInOrder(Tail(cs),
                         IF r # None /\ (best = None \/ RatGT(ScoreOf(r), ScoreOf(best)))
                         THEN r ELSE best)

\* C14 (as claimed): whatever order the combinations of an expiry are tested
\* and merged in, the allocation kept is the one kept when they are tested in
\* the order of itertools.product, also when combined scores are equal
C14_OrderIndependent ==
    ExpiryEvaluated =>
        best_allocation = KeptInOrder(CombosAt(common_expiries[e_idx]), None)

AllocatorRunning == pc \in {"seed", "phase2", "verify", "metrics"}

\* C19: a step of the allocator leaves unchanged the scans, the options data
\* mapping, the combination under test and those still to test, total_capital
\* and the fractions, and the results already produced (the best allocation,
\* the earlier results, the collected portfolios); the option each leg refers
\* to stays identical to the opportunity of the combination
C19_AllocatorFrame ==
    [][AllocatorRunning =>
          /\ UNCHANGED <<total_capital, min_pct, max_pct, symbols, scan, options_data,
                         common_expiries, combos, option_combo, best_allocation,
                         best_score, evaluated, optimized_portfolios, portfolios>>
          /\ \A k \in 1..Len(allocations') : allocations'[k].option = option_combo[k]
          /\ (pc' = "returned" /\ result' # None) =>
                \A k \in 1..Len(result'.allocations) :
                   result'.allocations[k].option = option_combo[k]
      ]_vars

\* the allocator has returned for a combination, after growing a leg, while
\* a different result of an earlier combination is kept as the best
C19_Witness ==
    /\ Returned
    /\ best_allocation # None
    /\ best_allocation # result
    /\ Len(evaluated) >= 1
    /\ \E k \in 1..Len(result.allocations) :
          result.allocations[k].actual_allocation > result.allocations[k].allocated_capital


\* analyze_csp_options has returned csp_opportunities
Analyzed == pc = "analyzed"

\* C15 (as claimed): every opportunity analyze_csp_options returns has
\* 0.15 <= |delta| <= 0.25, 0 < days_to_exp <= 10, bid > 0 and ask > 0
C15_OpportunityBounds ==
    Analyzed =>
        \A k \in 1..Len(csp_opportunities) :
           LET opp == csp_opportunities[k]
           IN  /\ 150 <= opp.abs_delta /\ opp.abs_delta <= 250
               /\ 0 < opp.days_to_exp /\ opp.days_to_exp <= 10
               /\ GTZero(opp.bid)
               /\ GTZero(opp.ask)

\* C16 (as claimed): the list analyze_csp_options returns is ordered by
\* premium percentage descending, and opportunities of equal premium
\* percentage are in ascending strike order
C16_SortedTiesByStrike ==
    Analyzed =>
        \A j, k \in 1..Len(csp_opportunities) :
           j < k =>
              LET a == csp_opportunities[j]
                  b == csp_opportunities[k]
              IN  /\ ~KeyLT(a.premium_percentage, b.premium_percentage)
                  /\ a.premium_percentage = b.premium_percentage => a.strike <= b.strike

\* the rows of a logged table that are read: those before the first row that raises
RowsRead(entry) ==
    {k \in 1..Len(entry.puts) : \A j \in 1..k : ~entry.puts[j].bad}

\* a row with a bid and an ask not <= 0 and a delta inside the band
RowQualifies(entry, put) ==
    LET abs_delta == IF put.delta_raises \/ entry.expiration - entry.now <= 0 \/ iv <= 0
                     THEN 0 ELSE put.cdf
    IN  /\ ~LEZero(put.bid)
        /\ ~LEZero(put.ask)
        /\ 150 <= abs_delta /\ abs_delta <= 250

\* expiration and strike of the qualifying rows of every logged table
QualifyingKeys ==
    UNION {{<<chain_log[n].expiration, chain_log[n].puts[k].strike>> :
               k \in {r \in RowsRead(chain_log[n]) :
                         RowQualifies(chain_log[n], chain_log[n].puts[r])}} :
           n \in 1..Len(chain_log)}

\* C17: analyze_csp_options never raises: it returns the empty list when the
\* provider fails or no expiration is in the window; every expiration in the
\* window is scanned, also after one whose chain could not be fetched or
\* read, and the qualifying rows of all of them are returned; then
\* analyze_multiple_stocks keeps a non-empty result and goes on to the next
\* symbol, and returns only after the last one
C17_NeverRaises ==
    /\ [](/\ pc \in {"scan_loop", "get_options_data", "chains", "analyzed", "scan_done"}
          /\ Analyzed =>
                /\ Len(chain_log) = Len(valid_expirations)
                /\ \A n \in 1..Len(chain_log) :
                      chain_log[n].expiration = valid_expirations[n]
                /\ {<<csp_opportunities[k].expiration, csp_opportunities[k].strike>> :
                       k \in 1..Len(csp_opportunities)} = QualifyingKeys
                /\ Len(csp_opportunities) = Cardinality(QualifyingKeys)
                /\ valid_expirations = <<>> => csp_opportunities = <<>>
          /\ pc = "scan_done" =>
                /\ s_idx = Len(symbols) + 1
                /\ DOMAIN scan \subseteq Range(symbols))
    /\ [][Analyzed =>
             /\ pc' = "scan_loop"
             /\ s_idx' = s_idx + 1
             /\ IF csp_opportunities = <<>>
                THEN scan' = scan
                ELSE /\ DOMAIN scan' = DOMAIN scan \cup {symbols[s_idx]}
                     /\ scan'[symbols[s_idx]] = csp_opportunities
                     /\ \A s \in DOMAIN scan \ {symbols[s_idx]} : scan'[s] = scan[s]
         ]_vars

\* the second symbol returns opportunities of its second expiration after
\* the chain of the first could not be fetched, the first symbol having
\* returned nothing
C17_Witness ==
    /\ Analyzed
    /\ s_idx = 2
    /\ scan = <<>>
    /\ Len(chain_log) = 2
    /\ chain_log[1].failed
    /\ csp_opportunities # <<>>

\* C18: calculate_black_scholes_delta returns 0 when T <= 0, when
\* sigma <= 0 and when the computation raises; no opportunity of the scan
\* has delta 0 or days_to_exp <= 0, and a row read on or after its
\* expiration date, or whose delta computation raises, is in no result
C18_DeltaZeroExcluded ==
    /\ \A T \in (0 - 1)..1, sigma \in {0 - 10, 0, 25}, cdf \in {0, 200}, raises \in BOOLEAN :
          (T <= 0 \/ sigma <= 0 \/ raises) =>
             calculate_black_scholes_delta(T, sigma, cdf, raises) = 0
    /\ \A k \in 1..Len(csp_opportunities) :
          /\ csp_opportunities[k].delta # 0
          /\ csp_opportunities[k].days_to_exp > 0
    /\ \A s \in DOMAIN scan : \A k \in 1..Len(scan[s]) :
          /\ scan[s][k].delta # 0
          /\ scan[s][k].days_to_exp > 0
    /\ \A n \in 1..Len(chain_log) : \A r \in 1..Len(chain_log[n].puts) :
          (chain_log[n].expiration <= chain_log[n].now \/ chain_log[n].puts[r].delta_raises) =>
             \A k \in 1..Len(csp_opportunities) :
                <<csp_opportunities[k].expiration, csp_opportunities[k].strike>>
                   # <<chain_log[n].expiration, chain_log[n].puts[r].strike>>

\* a table was read on or after its expiration date with a row that has a
\* bid, an ask and a value of the formula inside the band, the rows after it
\* were read, and the scan returned opportunities of another expiration
C18_Witness ==
    /\ Analyzed
    /\ csp_opportunities # <<>>
    /\ \E n \in 1..Len(chain_log) :
          /\ chain_log[n].expiration <= chain_log[n].now
          /\ \E r \in RowsRead(chain_log[n]) :
                LET put == chain_log[n].puts[r]
                IN  /\ GTZero(put.bid)
                    /\ GTZero(put.ask)
                    /\ ~put.delta_raises
                    /\ 150 <= put.cdf /\ put.cdf <= 250


\* the next contract of leg k costs no more than the remaining capital and
\* keeps the leg within total_capital x max fraction
NextFits(k) ==
    /\ allocations[k].option.strike * 100 <= remaining_capital
    /\ (allocations[k].actual_allocation + allocations[k].option.strike * 100) * 100
          <= total_capital * max_pct

\* premium per dollar of leg j is higher than that of leg k
RatioGT(j, k) ==
    allocations[j].option.premium * allocations[k].option.strike
       > allocations[k].option.premium * allocations[j].option.strike

\* leg k gets one contract and nothing else changes
OneContractTo(k) ==
    /\ Len(allocations') = Len(allocations)
    /\ allocations'[k] =
          [allocations[k] EXCEPT
              !.contracts = @ + 1,
              !.actual_allocation = @ + allocations[k].option.strike * 100,
              !.premium = @ + allocations[k].option.premium]
    /\ \A j \in 1..Len(allocations) : j # k => allocations'[j] = allocations[j]
    /\ remaining_capital' = remaining_capital - allocations[k].option.strike * 100

\* C21: a phase-2 step adds one contract to a symbol whose next contract
\* fits the remaining capital and the symbol's cap and whose premium per
\* dollar is the highest among the symbols that fit, the earliest of them on
\* a tie; remaining capital drops by the collateral, no other leg changes
C21_GreedyStep ==
    [][(pc = "phase2" /\ pc' = "phase2") =>
          \E k \in 1..Len(allocations) :
             /\ NextFits(k)
             /\ \A j \in 1..Len(allocations) : NextFits(j) => ~RatioGT(j, k)
             /\ \A j \in 1..(k - 1) : NextFits(j) => RatioGT(k, j)
             /\ OneContractTo(k)
      ]_vars

\* phase 2 has added to the earlier of two symbols of equal premium per
\* dollar while the later one, still at its seed, fitted as well
C21_Witness ==
    /\ pc = "phase2"
    /\ \E j, k \in 1..Len(allocations) :
          /\ j < k
          /\ allocations[j].option.premium > 0
          /\ ~RatioGT(j, k)
          /\ ~RatioGT(k, j)
          /\ allocations[j].contracts > SeedCount(option_combo[j])
          /\ allocations[k].contracts = SeedCount(option_combo[k])
          /\ NextFits(k)

\* C22 (as claimed): at the exit of phase 2 the next contract of every
\* symbol costs more than the remaining capital or exceeds the symbol's cap
C22_ExitNoneFits ==
    pc = "verify" => \A k \in 1..Len(allocations) : ~NextFits(k)

\* leg k is within total_capital x max fraction
WithinCap(legs, k) == legs[k].actual_allocation * 100 <= total_capital * max_pct

\* C23: the correction pass adds at most one contract, only when remaining
\* capital is at least the cheapest contract cost, and then to the first
\* symbol whose next contract fits the remaining capital and the cap; after it
\* remaining capital is not negative, the leg is within its cap and no leg
\* that was within its cap has left it
C23_CorrectionPass ==
    [][(pc = "verify" /\ pc' = "metrics") =>
          /\ \/ UNCHANGED <<allocations, remaining_capital>>
             \/ \E k \in 1..Len(allocations) :
                   /\ \A c \in 1..Len(allocations) :
                         remaining_capital >= allocations[c].option.strike * 100
                         \/ \E d \in 1..Len(allocations) :
                               allocations[d].option.strike < allocations[c].option.strike
                   /\ NextFits(k)
                   /\ \A j \in 1..(k - 1) : ~NextFits(j)
                   /\ OneContractTo(k)
                   /\ WithinCap(allocations', k)
          /\ remaining_capital' >= 0
          /\ \A j \in 1..Len(allocations) :
                WithinCap(allocations, j) => WithinCap(allocations', j)
      ]_vars

\* the correction pass has added a contract to a symbol that is not the
\* first: a leg of zero premium, which phase 2 never selects, is one
\* contract above its seed while the legs before it are not
C23_Witness ==
    /\ pc = "metrics"
    /\ \E k \in 2..Len(allocations) :
          /\ allocations[k].option.premium = 0
          /\ allocations[k].contracts = SeedCount(option_combo[k]) + 1
          /\ \A j \in 1..(k - 1) :
                /\ allocations[j].option.premium = 0
                /\ allocations[j].contracts = SeedCount(option_combo[j])

\* C27: while the allocator runs, remaining_capital is total_capital minus
\* the sum of the legs' actual_allocation and is not negative, and no step
\* lowers the contract count of a leg
C27_RemainingIsBalance ==
    /\ [](AllocatorRunning =>
             /\ remaining_capital = total_capital - LegSum(allocations, "actual_allocation", Len(allocations))
             /\ remaining_capital >= 0)
    /\ [][AllocatorRunning =>
             /\ Len(allocations') >= Len(allocations)
             /\ \A k \in 1..Len(allocations) :
                   allocations'[k].contracts >= allocations[k].contracts
         ]_vars

\* the correction pass is over after seeds for several symbols and
\* additions in phase 2, with capital left
C27_Witness ==
    /\ pc = "metrics"
    /\ Len(allocations) >= 2
    /\ remaining_capital > 0
    /\ remaining_capital < total_capital
    /\ \E k \in 1..Len(allocations) : allocations[k].contracts >= SeedCount(option_combo[k]) + 2

\* C28: when every opportunity of the combination has a premium above zero
\* the correction pass adds nothing; it changes the legs only when a symbol
\* whose next contract fits has a premium per dollar of zero or less
C28_CorrectionOnlyZeroPremium ==
    [][(pc = "verify" /\ pc' = "metrics") =>
          /\ (\A k \in 1..Len(option_combo) : option_combo[k].premium > 0) =>
                UNCHANGED <<allocations, remaining_capital>>
          /\ allocations' # allocations =>
                \E k \in 1..Len(allocations) :
                   NextFits(k) /\ allocations[k].option.premium <= 0
      ]_vars

\* the correction pass is over for a combination of positive premiums with
\* capital left that covers the cheapest contract, which the caps keep out
C28_Witness ==
    /\ pc = "metrics"
    /\ \A k \in 1..Len(option_combo) : option_combo[k].premium > 0
    /\ \E k \in 1..Len(allocations) :
          remaining_capital >= allocations[k].option.strike * 100

\* C30: allocated_capital is the seed amount from phase 1 on and no later
\* step changes it; in a returned allocation it is <= actual_allocation,
\* equal exactly for the legs that got no contract after phase 1
C30_AllocatedCapitalIsSeed ==
    /\ [][AllocatorRunning =>
             /\ \A k \in 1..Len(allocations) :
                   allocations'[k].allocated_capital = allocations[k].allocated_capital
             /\ \A k \in (Len(allocations) + 1)..Len(allocations') :
                   allocations'[k].allocated_capital =
                      SeedCount(option_combo[k]) * option_combo[k].strike * 100
         ]_vars
    /\ [](Returned =>
             \A k \in 1..Len(result.allocations) :
                LET leg == result.allocations[k]
                IN  /\ leg.allocated_capital <= leg.actual_allocation
                    /\ (leg.allocated_capital = leg.actual_allocation)
                          <=> (leg.contracts = SeedCount(option_combo[k])))

\* an allocation is returned in which one leg holds its seed amount only and
\* another holds more than its allocated_capital
C30_Witness ==
    /\ Returned
    /\ \E j, k \in 1..Len(result.allocations) :
          /\ result.allocations[j].allocated_capital = result.allocations[j].actual_allocation
          /\ result.allocations[k].allocated_capital < result.allocations[k].actual_allocation


C25_Terminates ==
    /\ <>(pc \in {"returned", "raised"})
    /\ [][(pc = "phase2" /\ pc' = "phase2") =>
             /\ remaining_capital' < remaining_capital
             /\ remaining_capital' >= 0
             /\ \E k \in 1..Len(allocations) :
                   /\ allocations[k].option.strike > 0
                   /\ remaining_capital - remaining_capital' = allocations[k].option.strike * 100
         ]_vars

\* the allocator has returned after at least three rounds of the phase-2
\* loop on one leg
C25_Witness ==
    /\ pc = "returned"
    /\ result # None
    /\ \E k \in 1..Len(result.allocations) :
          result.allocations[k].contracts >= SeedCount(option_combo[k]) + 3


\* the opportunities the scan of sym lists at expiry e
ListedAt(sym, e) == {m \in 1..Len(scan[sym]) : scan[sym][m].expiration = e}

RECURSIVE Pow5(_)
Pow5(n) == IF n = 0 THEN 1 ELSE 5 * Pow5(n - 1)

\* C26: every leg of an allocation returned for an expiry uses an
\* opportunity the scan lists for that symbol at that expiry, with fewer than
\* 5 opportunities of the same symbol and expiry above it in premium
\* percentage; at most 5^|symbols| combinations are tested per expiry
C26_TopFiveOnly ==
    /\ \A n \in 1..Len(optimized_portfolios) :
          LET p == optimized_portfolios[n]
          IN  \A k \in 1..Len(p.allocations) :
                 LET o == p.allocations[k].option
                     sym == symbols[k]
                 IN  /\ o.expiration = p.expiry_date
                     /\ \E m \in ListedAt(sym, p.expiry_date) : scan[sym][m] = o
                     /\ Cardinality({m \in ListedAt(sym, p.expiry_date) :
                                        RatGT(scan[sym][m].premium_percentage,
                                              o.premium_percentage)}) < 5
    /\ pc \in {"combos", "seed", "phase2", "verify", "metrics", "returned"} =>
          Len(evaluated) + Len(combos) <= Pow5(Len(symbols))

\* an expiry at which a symbol lists more than 5 opportunities has been
\* evaluated over the 5 combinations of a one-symbol request and returned an
\* allocation
C26_Witness ==
    /\ ExpiryEvaluated
    /\ Len(symbols) = 1
    /\ Cardinality(ListedAt(symbols[1], common_expiries[e_idx])) > 5
    /\ Len(evaluated) = 5
    /\ best_allocation # None


\* C29 (as claimed): every leg of every allocation optimize_portfolio
\* returns has the allocation's expiry_date as its option expiration and a
\* days_to_exp equal to the allocation's days_to_expiry
C29_LegsShareDaysToExpiry ==
    pc = "done" =>
       \A n \in 1..Len(portfolios) :
          \A k \in 1..Len(portfolios[n].allocations) :
             /\ portfolios[n].allocations[k].option.expiration = portfolios[n].expiry_date
             /\ portfolios[n].allocations[k].option.days_to_exp = portfolios[n].days_to_expiry

====
